---- MODULE Spec2Model ----
(***************************************************************************)
(* TransLogistics AI Engine: configuration provider (app/config.py),       *)
(* structured logging (app/utils/logger.py), health router                 *)
(* (app/routers/health.py) and process start-up (app/main.py).             *)
(*                                                                         *)
(* Conventions                                                             *)
(*   - an environment is a function from the names of the variables that   *)
(*     are set to their text; a text is a sequence of one-character        *)
(*     strings, so that coercion (int, bool, float, upper) is computed;    *)
(*   - float fields are held in hundredths (0.85 is 85);                   *)
(*   - time is held in units of 4 ms, uptime_seconds in hundredths of a    *)
(*     second, so that round(x, 2) is a real rounding;                     *)
(*   - a Settings object is an index into heap: identity is the index,     *)
(*     equality is equality of the records.                                *)
(***************************************************************************)
EXTENDS Integers, Sequences, FiniteSets, TLC

VARIABLES
    env,          \* os.environ (merged with .env), as seen by Settings()
    cache,        \* lru_cache of get_settings: <<>> or <<id>>
    heap,         \* the Settings objects constructed so far
    envReads,     \* number of times Settings() read the environment
    tpc,          \* per caller of get_settings: position in the lru_cache wrapper
    tbegan,       \* per caller: the cache as it was when the call began
    tlocal,       \* per caller: the object its own Settings() call built
    tres,         \* per caller: what its last call returned or raised
    pc,           \* main thread / event loop: position in start-up and serving
    settings,     \* local `settings` of the function now running in the main thread
    logConfig,    \* structlog.configure state: <<>> or <<[format, level]>>
    setupCalls,   \* number of completed structlog.configure calls
    logger,       \* module-level `logger` of app.utils.logger: bound or not
    log,          \* log records handed to the sink, in order
    START_TIME,   \* health.START_TIME: <<>> or <<t>>
    clock,        \* time.time(), the wall clock
    health,       \* last response of GET /health
    live,         \* last response of GET /health/live
    ready,        \* last response of GET /health/ready
    req           \* locals of the readiness_probe call now running, or <<>>

cfgVars == <<env, cache, heap, envReads>>
thrVars == <<tpc, tbegan, tlocal, tres>>
appVars == <<pc, settings, logConfig, setupCalls, logger, log, START_TIME, clock,
             health, live, ready, req>>
vars == <<cfgVars, thrVars, appVars>>

-----------------------------------------------------------------------------
(* Bounds *)

MaxEnvReads == 3     \* Settings() constructions attempted by racing callers
MaxClock == 2        \* wall-clock readings 0..MaxClock (units of 4 ms)
MaxLog == 3          \* records kept in the log

Callers == {"t1", "t2"}

-----------------------------------------------------------------------------
(* Text helpers *)

Digits == {"0", "1", "2", "3", "4", "5", "6", "7", "8", "9"}

DigitVal(c) ==
    CASE c = "0" -> 0 [] c = "1" -> 1 [] c = "2" -> 2 [] c = "3" -> 3
      [] c = "4" -> 4 [] c = "5" -> 5 [] c = "6" -> 6 [] c = "7" -> 7
      [] c = "8" -> 8 [] c = "9" -> 9

IsDigits(s) == Len(s) > 0 /\ \A i \in 1..Len(s) : s[i] \in Digits

RECURSIVE DecVal(_)
DecVal(s) == IF Len(s) = 0 THEN 0
             ELSE 10 * DecVal(SubSeq(s, 1, Len(s) - 1)) + DigitVal(s[Len(s)])

UpperChar(c) ==
    CASE c = "a" -> "A" [] c = "b" -> "B" [] c = "c" -> "C" [] c = "d" -> "D"
      [] c = "e" -> "E" [] c = "f" -> "F" [] c = "g" -> "G" [] c = "i" -> "I"
      [] c = "n" -> "N" [] c = "o" -> "O" [] c = "r" -> "R" [] c = "t" -> "T"
      [] c = "u" -> "U" [] c = "w" -> "W" [] c = "y" -> "Y" [] c = "s" -> "S"
      [] OTHER -> c

LowerChar(c) ==
    CASE c = "A" -> "a" [] c = "E" -> "e" [] c = "F" -> "f" [] c = "L" -> "l"
      [] c = "N" -> "n" [] c = "O" -> "o" [] c = "R" -> "r" [] c = "S" -> "s"
      [] c = "T" -> "t" [] c = "U" -> "u" [] c = "Y" -> "y"
      [] OTHER -> c

Upper(s) == [i \in 1..Len(s) |-> UpperChar(s[i])]
Lower(s) == [i \in 1..Len(s) |-> LowerChar(s[i])]

-----------------------------------------------------------------------------
(* pydantic coercion of environment text to the declared field type.       *)
(* Each returns <<v>> on success and <<>> on a validation error.           *)

Signed(s) == Len(s) > 0 /\ s[1] \in {"-", "+"}
Unsigned(s) == IF Signed(s) THEN SubSeq(s, 2, Len(s)) ELSE s
Sign(s) == IF Len(s) > 0 /\ s[1] = "-" THEN -1 ELSE 1

\* int field: an optionally signed run of decimal digits
ParseInt(s) ==
    IF IsDigits(Unsigned(s)) THEN <<Sign(s) * DecVal(Unsigned(s))>> ELSE <<>>

BoolTrue == {<<"1">>, <<"t", "r", "u", "e">>, <<"t">>, <<"o", "n">>,
             <<"y", "e", "s">>, <<"y">>}
BoolFalse == {<<"0">>, <<"f", "a", "l", "s", "e">>, <<"f">>, <<"o", "f", "f">>,
              <<"n", "o">>, <<"n">>}

\* bool field: the fixed truthy / falsy words, case-insensitive
ParseBool(s) ==
    IF Lower(s) \in BoolTrue THEN <<TRUE>>
    ELSE IF Lower(s) \in BoolFalse THEN <<FALSE>>
    ELSE <<>>

DotAt(s) == {i \in 1..Len(s) : s[i] = "."}

\* float field, in hundredths: [sign] digits [ "." digits ] with at most two
\* fraction digits in the texts modelled
ParseFloat(s) ==
    LET u == Unsigned(s)
        dots == DotAt(u)
    IN  IF dots = {} THEN
            IF IsDigits(u) THEN <<Sign(s) * 100 * DecVal(u)>> ELSE <<>>
        ELSE IF Cardinality(dots) = 1 THEN
            LET d == CHOOSE i \in dots : TRUE
                ip == SubSeq(u, 1, d - 1)
                fp == SubSeq(u, d + 1, Len(u))
                scaled == IF Len(fp) = 0 THEN 0
                          ELSE IF Len(fp) = 1 THEN 10 * DecVal(fp)
                          ELSE DecVal(SubSeq(fp, 1, 2))
            IN  IF (Len(ip) = 0 \/ IsDigits(ip)) /\ (Len(fp) = 0 \/ IsDigits(fp))
                   /\ Len(ip) + Len(fp) > 0
                THEN <<Sign(s) * (100 * DecVal(ip) + scaled)>>
                ELSE <<>>
        ELSE <<>>

-----------------------------------------------------------------------------
(* class Settings(BaseSettings): fields, defaults and validation.          *)
(* HOST and INTERNAL_API_KEY (str) behave as APP_NAME does, and A4_*_MM    *)
(* and DIMENSION_TOLERANCE_PERCENT (float) as the thresholds do; they are  *)
(* left out.                                                               *)

T_INFO == <<"I", "N", "F", "O">>

DefaultSettings ==
    [APP_NAME |-> "translogistics-ai-engine",
     APP_VERSION |-> "0.1.0",
     DEBUG |-> FALSE,
     PORT |-> 8000,
     LOG_LEVEL |-> T_INFO,
     LOG_FORMAT |-> "json",
     VOLUMESCAN_MODEL_VERSION |-> "v0.1.0",
     VOLUMESCAN_AUTO_ACCEPT_THRESHOLD |-> 85,
     VOLUMESCAN_MANUAL_THRESHOLD |-> 60]

StrFields == {"APP_NAME", "APP_VERSION", "LOG_LEVEL", "LOG_FORMAT",
              "VOLUMESCAN_MODEL_VERSION"}
FloatFields == {"VOLUMESCAN_AUTO_ACCEPT_THRESHOLD", "VOLUMESCAN_MANUAL_THRESHOLD"}
EnvVars == DOMAIN DefaultSettings

\* Coercion of one field's text to its declared type (case_sensitive names).
Coerce(f, s) ==
    IF f \in StrFields THEN <<s>>
    ELSE IF f = "DEBUG" THEN ParseBool(s)
    ELSE IF f = "PORT" THEN ParseInt(s)
    ELSE ParseFloat(s)

\* Settings(): every variable that is set is coerced, the others take the
\* class defaults; one field that cannot be coerced fails the construction.
\* No field declares a range or an enumeration, so none is checked.
SettingsNew(e) ==
    IF \E f \in DOMAIN e : Coerce(f, e[f]) = <<>>
    THEN [ok |-> FALSE, error |-> "ValidationError"]
    ELSE [ok |-> TRUE,
          value |-> [f \in EnvVars |->
                        IF f \in DOMAIN e THEN Coerce(f, e[f])[1]
                        ELSE DefaultSettings[f]]]

-----------------------------------------------------------------------------
(* The environments explored: nothing set, or one variable set.            *)

Candidates(f) ==
    CASE f = "APP_NAME" -> {"svc"}
      [] f = "APP_VERSION" -> {"9.9.9"}
      [] f = "DEBUG" -> {<<"T", "r", "u", "e">>, <<"m", "a", "y", "b", "e">>}
      [] f = "PORT" -> {<<"8", "0">>, <<"8", "x">>}
      [] f = "LOG_LEVEL" -> {<<"d", "e", "b", "u", "g">>,
                              <<"E", "R", "R", "O", "R">>,
                              <<"T", "R", "A", "C", "E">>}
      [] f = "LOG_FORMAT" -> {"console", "xml"}
      [] f = "VOLUMESCAN_MODEL_VERSION" -> {"v2"}
      [] f = "VOLUMESCAN_AUTO_ACCEPT_THRESHOLD" ->
             {<<"0", ".", "5">>, <<"1", ".", "5">>, <<"h", "i">>}
      [] f = "VOLUMESCAN_MANUAL_THRESHOLD" -> {<<"-", "1">>}

EmptyEnv == <<>>
Environments ==
    {EmptyEnv} \cup UNION {{f :> x : x \in Candidates(f)} : f \in EnvVars}

-----------------------------------------------------------------------------
(* @lru_cache() around get_settings: one key (no arguments), never         *)
(* evicted, never cleared.                                                 *)

NoEntry == <<>>

\* (no memoisation: every call runs the wrapped function)
CacheHitNever(c) == FALSE

\* cache lookup on entry to the wrapper
CacheHit(c) == c # NoEntry

\* after the wrapped call returned: the entry is added unless the key was
\* added while the call ran
CacheAfterStore(c, id) == IF c = NoEntry THEN <<id>> ELSE c

\* (the failure is remembered: a sentinel entry is stored)
CacheAfterRaiseStored(c) == <<0>>

\* the wrapped call raised: the exception propagates, nothing is stored
CacheAfterRaise(c) == c

OkResult(id) == [kind |-> "ok", id |-> id]
RaisedResult(r) == [kind |-> "raised", error |-> r.error]
NoResult == [kind |-> "none"]

\* get_settings() run to completion by one thread with no other thread
\* running (module import, the event loop): lookup, Settings(), store.
get_settings ==
    IF CacheHit(cache)
    THEN [cache |-> cache, heap |-> heap, envReads |-> envReads,
          result |-> OkResult(cache[1])]
    ELSE LET r == SettingsNew(env)
             id == Len(heap) + 1
         IN  IF r.ok
             THEN [cache |-> CacheAfterStore(cache, id),
                   heap |-> Append(heap, r.value),
                   envReads |-> envReads + 1,
                   result |-> OkResult(id)]
             ELSE [cache |-> CacheAfterRaise(cache), heap |-> heap,
                   envReads |-> envReads + 1,
                   result |-> RaisedResult(r)]

-----------------------------------------------------------------------------
(* get_settings() called from several threads: the steps of the lru_cache  *)
(* wrapper, between which another thread may run.                          *)

\* wrapper entry: lookup; a hit returns the cached object
CacheLookup(t) ==
    /\ tpc[t] = "idle"
    /\ tbegan' = [tbegan EXCEPT ![t] = cache]
    /\ IF CacheHit(cache)
       THEN /\ tres' = [tres EXCEPT ![t] = OkResult(cache[1])]
            /\ tpc' = tpc
       ELSE /\ tres' = [tres EXCEPT ![t] = NoResult]
            /\ tpc' = [tpc EXCEPT ![t] = "miss"]
    /\ UNCHANGED <<cfgVars, tlocal, appVars>>

\* the wrapped function: return Settings()
CallSettings(t) ==
    /\ tpc[t] = "miss"
    /\ envReads < MaxEnvReads
    /\ envReads' = envReads + 1
    /\ LET r == SettingsNew(env)
       IN  IF r.ok
           THEN /\ heap' = Append(heap, r.value)
                /\ tlocal' = [tlocal EXCEPT ![t] = <<Len(heap) + 1>>]
                /\ tpc' = [tpc EXCEPT ![t] = "built"]
                /\ UNCHANGED <<cache, tres>>
           ELSE /\ cache' = CacheAfterRaise(cache)
                /\ tres' = [tres EXCEPT ![t] = RaisedResult(r)]
                /\ tpc' = [tpc EXCEPT ![t] = "idle"]
                /\ UNCHANGED <<heap, tlocal>>
    /\ UNCHANGED <<env, tbegan, appVars>>

\* back in the wrapper: store unless the key is there by now, and return the
\* object this call built
CacheStore(t) ==
    /\ tpc[t] = "built"
    /\ cache' = CacheAfterStore(cache, tlocal[t][1])
    /\ tres' = [tres EXCEPT ![t] = OkResult(tlocal[t][1])]
    /\ tlocal' = [tlocal EXCEPT ![t] = <<>>]
    /\ tpc' = [tpc EXCEPT ![t] = "idle"]
    /\ UNCHANGED <<env, heap, envReads, tbegan, appVars>>

\* the environment changes while the process runs
EnvChange ==
    /\ env' \in Environments \ {env}
    /\ UNCHANGED <<cache, heap, envReads, thrVars, appVars>>

AppInit ==
    /\ pc = "import_logger"
    /\ settings = <<>>
    /\ logConfig = <<>>
    /\ setupCalls = 0
    /\ logger = FALSE
    /\ log = <<>>
    /\ START_TIME = <<>>
    /\ clock = 0
    /\ health = <<>>
    /\ live = <<>>
    /\ ready = <<>>
    /\ req = <<>>

\* app.config has been imported: the class and the empty cache exist
ConfigInit ==
    /\ env \in Environments
    /\ cache = NoEntry
    /\ heap = <<>>
    /\ envReads = 0
    /\ tpc = [t \in Callers |-> "idle"]
    /\ tbegan = [t \in Callers |-> NoEntry]
    /\ tlocal = [t \in Callers |-> <<>>]
    /\ tres = [t \in Callers |-> NoResult]

Init == ConfigInit /\ AppInit

ConfigNext ==
    \/ \E t \in Callers : CacheLookup(t)
    \/ \E t \in Callers : CallSettings(t)
    \/ \E t \in Callers : CacheStore(t)
    \/ EnvChange

\* app.config used on its own by concurrent callers
SpecConfig == Init /\ [][ConfigNext]_vars

-----------------------------------------------------------------------------
(* app/utils/logger.py *)

\* getattr(logging, name): the level constants of the logging module;
\* <<>> stands for AttributeError
LoggingLevel(name) ==
    CASE name = <<"C", "R", "I", "T", "I", "C", "A", "L">> -> <<50>>
      [] name = <<"F", "A", "T", "A", "L">> -> <<50>>
      [] name = <<"E", "R", "R", "O", "R">> -> <<40>>
      [] name = <<"W", "A", "R", "N", "I", "N", "G">> -> <<30>>
      [] name = <<"W", "A", "R", "N">> -> <<30>>
      [] name = <<"I", "N", "F", "O">> -> <<20>>
      [] name = <<"D", "E", "B", "U", "G">> -> <<10>>
      [] name = <<"N", "O", "T", "S", "E", "T">> -> <<0>>
      [] OTHER -> <<>>

\* the level of a bound-logger method
MethodLevel(m) ==
    CASE m = "error" -> 40 [] m = "warning" -> 30 [] m = "info" -> 20

\* the renderer chosen by setup_logging
Renderer(s) == IF s.LOG_FORMAT = "console" THEN "console" ELSE "json"

\* what the filtering bound logger lets through to the renderer
Rendered(records, cfg) == SelectSeq(records, LAMBDA r : MethodLevel(r.level) >= cfg.level)

\* the lines written to standard output so far
stdout == IF logConfig = <<>> THEN <<>> ELSE Rendered(log, logConfig[1])

-----------------------------------------------------------------------------
(* app/routers/health.py *)

\* round(seconds, 2) of a difference d held in units of 4 ms, in hundredths
\* of a second (no tie arises: 4 * d is never an odd multiple of 5)
Round2(d) == (4 * d + 5) \div 10

\* time.time() - START_TIME, rounded
Uptime(now, start) == Round2(now - start)

\* (any in place of all)
AnyReady(checks) == \E n \in DOMAIN checks : checks[n]

\* all(checks.values())
AllReady(checks) == \A n \in DOMAIN checks : checks[n]

\* checks = {"model_loaded": True}, the registry as the source has it
PlaceholderChecks == [n \in {"model_loaded"} |-> TRUE]

\* The check maps the probe is run on: the source evaluates the placeholder
\* registry only; the aggregation below it is explored on every map over
\* these names.
CheckNames == {"model_loaded", "extra"}
CheckMaps == UNION {[S -> BOOLEAN] : S \in SUBSET CheckNames}

HealthResponse(s, up) ==
    [status |-> "ok", service |-> s.APP_NAME, version |-> s.APP_VERSION,
     uptime_seconds |-> up, model_version |-> s.VOLUMESCAN_MODEL_VERSION,
     code |-> 200]

\* global_exception_handler of create_app: the envelope for an unhandled error
ErrorResponse == [status |-> "INTERNAL_ERROR", code |-> 500]

\* (liveness that follows the last readiness result)
LivenessFollowsReadiness ==
    [status |-> IF ready # <<>> /\ ready[1].status = "not_ready" THEN "unavailable"
                ELSE "ok",
     code |-> IF ready # <<>> /\ ready[1].status = "not_ready" THEN 503 ELSE 200]

LivenessResponse == [status |-> "ok", code |-> 200]

\* r: the locals of the call (checks, all_ready, response.status_code)
ReadinessResponse(r) ==
    [status |-> IF r.all_ready THEN "ready" ELSE "not_ready",
     checks |-> r.checks,
     code |-> r.status_code]

\* (only the failed checks are logged)
WarningRecordFailedOnly(checks) ==
    [level |-> "warning", event |-> "Readiness check failed",
     checks |-> [n \in {m \in DOMAIN checks : ~checks[m]} |-> FALSE]]

WarningRecord(checks) ==
    [level |-> "warning", event |-> "Readiness check failed", checks |-> checks]

InfoRecord(ev) == [level |-> "info", event |-> ev]

-----------------------------------------------------------------------------
(* Process start-up in import order, then the event loop.                  *)

ApplyGetSettings(g) ==
    /\ cache' = g.cache
    /\ heap' = g.heap
    /\ envReads' = g.envReads

\* main.py:15 -> health.py:13 -> logger.py:59 -> setup_logging, line 20
SetupLoggingLoad ==
    /\ pc = "import_logger"
    /\ LET g == get_settings
       IN  /\ ApplyGetSettings(g)
           /\ IF g.result.kind = "ok"
              THEN settings' = <<g.result.id>> /\ pc' = "configure"
              ELSE settings' = <<>> /\ pc' = "crashed"
    /\ UNCHANGED <<env, thrVars, logConfig, setupCalls, logger, log, START_TIME,
                   clock, health, live, ready, req>>

\* setup_logging, lines 22-50: structlog.configure
SetupLoggingConfigure ==
    /\ pc = "configure"
    /\ LET s == heap[settings[1]]
           lvl == LoggingLevel(Upper(s.LOG_LEVEL))
       IN  IF lvl = <<>>
           THEN pc' = "crashed" /\ UNCHANGED <<logConfig, setupCalls>>
           ELSE /\ logConfig' = <<[format |-> Renderer(s), level |-> lvl[1]]>>
                /\ setupCalls' = setupCalls + 1
                /\ pc' = "bind_logger"
    /\ settings' = <<>>
    /\ UNCHANGED <<cfgVars, thrVars, logger, log, START_TIME, clock, health, live,
                   ready, req>>

\* (logger = get_logger(...) placed above the setup_logging() call)
BindLoggerBeforeSetup ==
    /\ pc = "import_logger"
    /\ ~logger
    /\ logger' = TRUE
    /\ UNCHANGED <<cfgVars, thrVars, pc, settings, logConfig, setupCalls, log,
                   START_TIME, clock, health, live, ready, req>>

\* logger.py:62
BindLogger ==
    /\ pc = "bind_logger"
    /\ logger' = TRUE
    /\ pc' = "import_health"
    /\ UNCHANGED <<cfgVars, thrVars, settings, logConfig, setupCalls, log,
                   START_TIME, clock, health, live, ready, req>>

\* health.py:20
CaptureStartTime ==
    /\ pc = "import_health"
    /\ START_TIME' = <<clock>>
    /\ pc' = "create_app"
    /\ UNCHANGED <<cfgVars, thrVars, settings, logConfig, setupCalls, logger, log,
                   clock, health, live, ready, req>>

\* main.py:129 -> create_app, line 52
create_app ==
    /\ pc = "create_app"
    /\ LET g == get_settings
       IN  /\ ApplyGetSettings(g)
           /\ pc' = IF g.result.kind = "ok" THEN "startup" ELSE "crashed"
    /\ UNCHANGED <<env, thrVars, settings, logConfig, setupCalls, logger, log,
                   START_TIME, clock, health, live, ready, req>>

\* lifespan, up to the yield
LifespanStartup ==
    /\ pc = "startup"
    /\ logger
    /\ LET g == get_settings
       IN  /\ ApplyGetSettings(g)
           /\ IF g.result.kind = "ok"
              THEN /\ log' = log \o
                        <<[level |-> "info",
                           event |-> "Starting TransLogistics AI Engine",
                           service |-> g.heap[g.result.id].APP_NAME,
                           version |-> g.heap[g.result.id].APP_VERSION,
                           model_version |->
                               g.heap[g.result.id].VOLUMESCAN_MODEL_VERSION],
                          InfoRecord("AI Engine ready to accept requests")>>
                   /\ pc' = "serving"
              ELSE log' = log /\ pc' = "crashed"
    /\ UNCHANGED <<env, thrVars, settings, logConfig, setupCalls, logger,
                   START_TIME, clock, health, live, ready, req>>

\* lifespan, after the yield
LifespanShutdown ==
    /\ pc = "serving"
    /\ req = <<>>
    /\ logger
    /\ log' = Append(log, InfoRecord("Shutting down AI Engine"))
    /\ pc' = "stopped"
    /\ UNCHANGED <<cfgVars, thrVars, settings, logConfig, setupCalls, logger,
                   START_TIME, clock, health, live, ready, req>>

\* GET /health
health_check ==
    /\ pc = "serving"
    /\ req = <<>>
    /\ LET g == get_settings
       IN  /\ ApplyGetSettings(g)
           /\ IF g.result.kind = "ok"
              THEN /\ health' = <<HealthResponse(g.heap[g.result.id],
                                                 Uptime(clock, START_TIME[1]))>>
                   /\ log' = log
              ELSE /\ health' = <<ErrorResponse>>
                   /\ log' = Append(log, [level |-> "error",
                                          event |-> "Unhandled exception"])
    /\ UNCHANGED <<env, thrVars, pc, settings, logConfig, setupCalls, logger,
                   START_TIME, clock, live, ready, req>>

\* GET /health/live
liveness_probe ==
    /\ pc = "serving"
    /\ req = <<>>
    /\ live' = <<LivenessResponse>>
    /\ UNCHANGED <<cfgVars, thrVars, pc, settings, logConfig, setupCalls, logger,
                   log, START_TIME, clock, health, ready, req>>

\* GET /health/ready, lines 90-99, on the evaluated check map: aggregate,
\* set the status code, log
readiness_probe(checks) ==
    /\ pc = "serving"
    /\ req = <<>>
    /\ logger
    /\ LET all_ready == AllReady(checks)
       IN  IF ~all_ready
           THEN /\ Len(log) < MaxLog
                /\ req' = <<[checks |-> checks, all_ready |-> all_ready,
                             status_code |-> 503]>>
                /\ log' = Append(log, WarningRecord(checks))
           ELSE /\ req' = <<[checks |-> checks, all_ready |-> all_ready,
                             status_code |-> 200]>>
                /\ log' = log
    /\ UNCHANGED <<cfgVars, thrVars, pc, settings, logConfig, setupCalls, logger,
                   START_TIME, clock, health, live, ready>>

\* GET /health/ready, lines 101-104: the response is returned
readiness_return ==
    /\ req # <<>>
    /\ ready' = <<ReadinessResponse(req[1])>>
    /\ req' = <<>>
    /\ UNCHANGED <<cfgVars, thrVars, pc, settings, logConfig, setupCalls, logger,
                   log, START_TIME, clock, health, live>>

\* the wall clock advances
Tick ==
    /\ clock < MaxClock
    /\ clock' = clock + 1
    /\ UNCHANGED <<cfgVars, thrVars, pc, settings, logConfig, setupCalls, logger,
                   log, START_TIME, health, live, ready, req>>

\* the wall clock is set back (time.time() follows the system clock)
ClockSetBack ==
    /\ clock' \in 0..(clock - 1)
    /\ UNCHANGED <<cfgVars, thrVars, pc, settings, logConfig, setupCalls, logger,
                   log, START_TIME, health, live, ready, req>>

\* start-up in import order, then the lifespan
Startup ==
    \/ SetupLoggingLoad
    \/ SetupLoggingConfigure
    \/ BindLogger
    \/ CaptureStartTime
    \/ create_app
    \/ LifespanStartup
    \/ LifespanShutdown

Next ==
    \/ Startup
    \/ health_check
    \/ liveness_probe
    \/ readiness_probe(PlaceholderChecks)
    \/ readiness_return
    \/ Tick
    \/ ClockSetBack
    \/ EnvChange

\* the service process as shipped: imports, application start-up, probes on
\* the placeholder registry, shutdown, under a moving wall clock and a
\* changing environment
Spec == Init /\ [][Next]_vars

ChecksNext ==
    \/ Startup
    \/ health_check
    \/ liveness_probe
    \/ \E checks \in CheckMaps : readiness_probe(checks)
    \/ readiness_return
    \/ EnvChange

\* the service process with a registry whose checks may report false: the
\* probes on every check map, the clock standing still
SpecChecks == Init /\ [][ChecksNext]_vars

-----------------------------------------------------------------------------
(* Properties *)

AllTrue(c) == \A n \in DOMAIN c : c[n] = TRUE
MixedChecks == [n \in CheckNames |-> n = "model_loaded"]

\* C1: a readiness call on check map c returns the map c unchanged, status
\* "ready" exactly when every entry of c is true and "not_ready" otherwise,
\* with HTTP status 503 exactly when the status is "not_ready".
C1_ReadinessAggregation ==
    [][/\ \A c \in CheckMaps : readiness_probe(c) =>
              /\ req'[1].checks = c
              /\ req'[1].status_code = IF AllTrue(c) THEN 200 ELSE 503
       /\ readiness_return =>
              /\ ready'[1].checks = req[1].checks
              /\ ready'[1].status \in {"ready", "not_ready"}
              /\ ready'[1].status = "ready" <=> AllTrue(req[1].checks)
              /\ ready'[1].code = 503 <=> ready'[1].status = "not_ready"
              /\ ready'[1].code = req[1].status_code]_vars

\* C1 witness: {model_loaded: true, extra: false} was answered not_ready, 503,
\* both entries in the body.
C1_Witness ==
    /\ ready # <<>>
    /\ ready[1].checks = MixedChecks
    /\ ready[1].status = "not_ready"
    /\ ready[1].code = 503

\* C2: every liveness response is {status: "ok"} with HTTP 200, whatever the
\* readiness checks reported, and the call that produces it changes nothing
\* else: no settings are loaded, no record is logged, no other response moves.
C2_LivenessAlwaysOk ==
    [][live' # live =>
          /\ live' = <<[status |-> "ok", code |-> 200]>>
          /\ UNCHANGED <<cache, heap, envReads, log, health, ready, req>>]_vars

\* C2 witness: liveness answered ok while the last readiness answer, on a map
\* with every check false, is not_ready / 503.
C2_Witness ==
    /\ live = <<[status |-> "ok", code |-> 200]>>
    /\ ready # <<>>
    /\ ready[1].code = 503
    /\ DOMAIN ready[1].checks = CheckNames
    /\ \A n \in CheckNames : ~ready[1].checks[n]

\* C3: the first call to return an instance leaves that instance in the
\* cache; once the cache holds an instance it holds that instance for good,
\* the instance is never modified, and every call that begins from then on
\* returns that very instance without reading the environment again.
C3_SameInstance ==
    [][/\ cache # NoEntry => cache' = cache
       /\ \A t \in Callers : (CacheStore(t) /\ cache = NoEntry) =>
              cache' = <<tres'[t].id>>
       /\ \A i \in 1..Len(heap) : heap'[i] = heap[i]
       /\ \A t \in Callers : (CacheLookup(t) /\ cache # NoEntry) =>
              /\ tres'[t] = [kind |-> "ok", id |-> cache[1]]
              /\ tpc'[t] = "idle"
              /\ envReads' = envReads
              /\ heap' = heap]_vars

\* C3 witness: a call that began with the instance cached returned it, while
\* the environment no longer yields that instance's values.
C3_Witness ==
    \E t \in Callers :
        /\ tbegan[t] # NoEntry
        /\ tpc[t] = "idle"
        /\ tres[t] = [kind |-> "ok", id |-> cache[1]]
        /\ LET r == SettingsNew(env)
           IN  r.ok /\ r.value # heap[cache[1]]

MalformedEnv(e) ==
    \E f \in DOMAIN e :
        \/ f = "PORT" /\ ~IsDigits(Unsigned(e[f]))
        \/ f = "DEBUG" /\ Lower(e[f]) \notin (BoolTrue \cup BoolFalse)
        \/ f \in FloatFields /\ ParseFloat(e[f]) = <<>>

\* C4: a Settings() call made under an environment holding a malformed
\* numeric or boolean value raises the validation error to its caller and
\* leaves the cache and the set of instances as they were, so an empty cache
\* stays empty and the next call constructs again.
C4_MalformedNotCached ==
    [][\A t \in Callers : (CallSettings(t) /\ MalformedEnv(env)) =>
          /\ tres'[t] = [kind |-> "raised", error |-> "ValidationError"]
          /\ tpc'[t] = "idle"
          /\ cache' = cache
          /\ heap' = heap]_vars

\* C4 witness: a call has raised under a malformed environment, the cache is
\* empty, and a later call has read the environment again.
C4_Witness ==
    \E t \in Callers :
        /\ tres[t].kind = "raised"
        /\ MalformedEnv(env)
        /\ cache = NoEntry
        /\ envReads >= 2

\* C5: whatever the interleaving of concurrent first calls, at most one
\* Settings instance is ever constructed and all callers get the same one.
C5_ConstructedOnce ==
    /\ Len(heap) <= 1
    /\ \A t, u \in Callers :
           (tres[t].kind = "ok" /\ tres[u].kind = "ok") => tres[t].id = tres[u].id

\* C6: uptime_seconds is never negative and never decreases from one
\* /health response to the next; START_TIME, once captured, never changes.
C6_UptimeMonotonic ==
    [][/\ START_TIME # <<>> => START_TIME' = START_TIME
       /\ health' # <<>> => health'[1].uptime_seconds >= 0
       /\ (health # <<>> /\ health' # <<>>) =>
              health'[1].uptime_seconds >= health[1].uptime_seconds]_vars

\* C7: every /health response has status "ok" and HTTP 200, and its service,
\* version and model_version are those of the cached Settings instance.
C7_HealthAlwaysOk ==
    health # <<>> =>
        /\ health[1].status = "ok"
        /\ health[1].code = 200
        /\ cache # NoEntry
        /\ health[1].service = heap[cache[1]].APP_NAME
        /\ health[1].version = heap[cache[1]].APP_VERSION
        /\ health[1].model_version = heap[cache[1]].VOLUMESCAN_MODEL_VERSION

\* C7 witness: /health answered while the last readiness answer is not_ready
\* and the environment now names the service differently.
C7_Witness ==
    /\ health # <<>>
    /\ ready # <<>>
    /\ ready[1].status = "not_ready"
    /\ "APP_NAME" \in DOMAIN env
    /\ env["APP_NAME"] # health[1].service

\* C8: a readiness call hands the sink one warning record carrying the whole
\* check map exactly when some check is false, and none when all are true;
\* the record is the last of the log when the call returns; the call returns
\* a readiness response and logs no error.
C8_WarningWhenNotReady ==
    [][/\ \A c \in CheckMaps : readiness_probe(c) =>
              IF \E n \in DOMAIN c : c[n] = FALSE
              THEN log' = Append(log, [level |-> "warning",
                                       event |-> "Readiness check failed",
                                       checks |-> c])
              ELSE log' = log
       /\ readiness_return =>
              /\ log' = log
              /\ ready'[1].status \in {"ready", "not_ready"}
              /\ ready'[1].status = "not_ready" =>
                     /\ log # <<>>
                     /\ log[Len(log)].level = "warning"
                     /\ log[Len(log)].checks = ready'[1].checks]_vars

\* C8 witness: a not_ready answer on a two-entry map, its warning the last
\* record of the log.
C8_Witness ==
    /\ ready # <<>>
    /\ ready[1].status = "not_ready"
    /\ Cardinality(DOMAIN ready[1].checks) = 2
    /\ log # <<>>
    /\ log[Len(log)] = [level |-> "warning", event |-> "Readiness check failed",
                        checks |-> ready[1].checks]

LoggingReady ==
    /\ setupCalls = 1
    /\ logConfig # <<>>
    /\ cache # NoEntry
    /\ logConfig[1].format = (IF heap[cache[1]].LOG_FORMAT = "console"
                              THEN "console" ELSE "json")
    /\ <<logConfig[1].level>> = LoggingLevel(Upper(heap[cache[1]].LOG_LEVEL))

\* C9: logging is configured at most once; the module-level logger exists,
\* and any record has been logged, only after that configuration completed,
\* which was made from the loaded Settings instance; once made, the
\* configuration (format and level) never changes.
C9_LoggingConfiguredOnceFirst ==
    /\ [](setupCalls <= 1)
    /\ [](logConfig # <<>> => LoggingReady)
    /\ []((logger \/ log # <<>>) => LoggingReady)
    /\ [][logConfig # <<>> => logConfig' = logConfig]_vars

\* C9 witness: records have been logged under the JSON renderer while the
\* environment now asks for the console format.
C9_Witness ==
    /\ Len(log) >= 2
    /\ logConfig[1].format = "json"
    /\ "LOG_FORMAT" \in DOMAIN env
    /\ env["LOG_FORMAT"] = "console"

Ratio == 0..100

\* C10: every Settings instance has a LOG_LEVEL that names a logging level
\* and both thresholds within [0, 1].
C10_SettingsWithinConstraints ==
    \A i \in 1..Len(heap) :
        /\ LoggingLevel(Upper(heap[i].LOG_LEVEL)) # <<>>
        /\ heap[i].VOLUMESCAN_AUTO_ACCEPT_THRESHOLD \in Ratio
        /\ heap[i].VOLUMESCAN_MANUAL_THRESHOLD \in Ratio

====
